---- MODULE Spec2Model ----
(***************************************************************************)
(* imco: command-line image converter (src/src/main.rs).                   *)
(*                                                                         *)
(* The model covers parse_and_execute and everything it calls: pattern     *)
(* expansion, input/output pairing, format resolution, output naming and   *)
(* the per-file conversion with its error classification.  Paths and       *)
(* format tokens are sequences of one-character strings, so that           *)
(* file_stem, extension, join and to_ascii_lowercase are computed as the   *)
(* code (and the std / image calls it makes) computes them.  The file      *)
(* system, the glob matcher and the codec are the environment: each call   *)
(* into them takes its result from a small set of possible results.        *)
(***************************************************************************)
EXTENDS Naturals, Sequences, FiniteSets

VARIABLES
    args,         \* the parsed options: input, output, i_fmt, o_fmt, batch
    pc,           \* position in main / parse_and_execute / process
    input_files,  \* parse_and_execute: input_files
    couples,      \* parse_and_execute: couples
    fmts,         \* process: the resolved i_fmt and o_fmt
    idx,          \* process: 1-based index of the next couple of the loop
    calls,        \* the calls of individual_process: the couple's index and the result
    events,       \* file and codec calls made so far, each with its couple
    stdout,       \* lines printed so far
    globbed,      \* what glob() answered for each pattern, once it was asked
    res           \* result of parse_and_execute, once it has one

vars == <<args, pc, input_files, couples, fmts, idx, calls, events, stdout, globbed, res>>

\* ------------------------------------------------------------------ bounds
MaxInputs == 3
MaxOutputs == 2

\* ------------------------------------------------------- Option and Result
None == [tag |-> "None"]
Some(x) == [tag |-> "Some", v |-> x]
Ok(x) == [tag |-> "Ok", v |-> x]
Err(e) == [tag |-> "Err", e |-> e]
Panic(site) == [tag |-> "Panic", site |-> site]

\* ---------------------------------------------------------------- ImcoError
FailedFileRead(reason, path) == [kind |-> "FailedFileRead", reason |-> reason, path |-> path]
FailedFileWrite(reason, path) == [kind |-> "FailedFileWrite", reason |-> reason, path |-> path]
InvalidBatching == [kind |-> "InvalidBatching"]
InvalidFormat(f) == [kind |-> "InvalidFormat", f |-> f]
NoDestFormat == [kind |-> "NoDestFormat"]
Decoding(path, hint) == [kind |-> "Decoding", path |-> path, hint |-> hint]
Encoding(path, hint) == [kind |-> "Encoding", path |-> path, hint |-> hint]
Unsupported(path, hint) == [kind |-> "Unsupported", path |-> path, hint |-> hint]
InternalConversionError(path) == [kind |-> "InternalConversionError", path |-> path]
ResourceLimitReached(path) == [kind |-> "ResourceLimitReached", path |-> path]
BatchPattern(err, pat) == [kind |-> "BatchPattern", err |-> err, pat |-> pat]
BatchReadEntry(err) == [kind |-> "BatchReadEntry", err |-> err]

\* ------------------------------------------------------------ io::ErrorKind
ErrorKinds ==
    {"NotFound", "PermissionDenied", "AlreadyExists", "NotADirectory",
     "IsADirectory", "StorageFull", "FileTooLarge", "Other"}

io_reason(kind) ==
    CASE kind = "NotFound" -> "Not found"
      [] kind = "PermissionDenied" -> "Permission denied"
      [] kind = "AlreadyExists" -> "Already exists"
      [] kind = "NotADirectory" -> "Is not a directory"
      [] kind = "IsADirectory" -> "Is a directory"
      [] kind = "StorageFull" -> "Storage is full"
      [] kind = "FileTooLarge" -> "File is too large"
      [] OTHER -> "Unknown (unhandled)"

\* res is Ok(x) or Err(kind), kind an io::ErrorKind
io_error_convert(r, file_path, is_read) ==
    IF r.tag = "Ok" THEN r
    ELSE IF is_read THEN Err(FailedFileRead(io_reason(r.e), file_path))
    ELSE Err(FailedFileWrite(io_reason(r.e), file_path))

\* ImageReader::open(path): the file is opened, nothing is decoded yet
imread(path, opened) == io_error_convert(opened, path, TRUE)

\* r is Ok(x) or Err(e), e an ImageError: [kind |-> ...] with io for IoError
image_err_convert(r, img_path) ==
    IF r.tag = "Ok" THEN r
    ELSE CASE r.e.kind = "Decoding" -> Err(Decoding(img_path, "hint"))
           [] r.e.kind = "Encoding" -> Err(Encoding(img_path, "hint"))
           [] r.e.kind = "Parameter" -> Err(InternalConversionError(img_path))
           [] r.e.kind = "Limits" -> Err(ResourceLimitReached(img_path))
           [] r.e.kind = "Unsupported" -> Err(Unsupported(img_path, "hint"))
           [] r.e.kind = "IoError" -> io_error_convert(Err(r.e.io), img_path, FALSE)

\* ------------------------------------------------------------------ strings
Upper == <<"A","B","C","D","E","F","G","H","I","J","K","L","M",
           "N","O","P","Q","R","S","T","U","V","W","X","Y","Z">>
Lower == <<"a","b","c","d","e","f","g","h","i","j","k","l","m",
           "n","o","p","q","r","s","t","u","v","w","x","y","z">>

to_ascii_lowercase(s) ==
    [i \in 1..Len(s) |->
        IF \E j \in 1..26 : Upper[j] = s[i]
        THEN Lower[CHOOSE j \in 1..26 : Upper[j] = s[i]]
        ELSE s[i]]

\* ---------------------------------------------------------------- std::path
\* the pieces of p between separators
RECURSIVE Split(_)
Split(p) ==
    IF \A i \in 1..Len(p) : p[i] # "/" THEN <<p>>
    ELSE LET k == CHOOSE i \in 1..Len(p) :
                      p[i] = "/" /\ \A j \in 1..(i-1) : p[j] # "/"
         IN <<SubSeq(p, 1, k-1)>> \o Split(SubSeq(p, k+1, Len(p)))

\* Path::components without a root: empty pieces and "." pieces are dropped
Components(p) == SelectSeq(Split(p), LAMBDA c : c # <<>> /\ c # <<".">>)

\* Path::file_name: the last component, unless there is none or it is ".."
file_name(p) ==
    LET cs == Components(p)
    IN IF cs = <<>> \/ cs[Len(cs)] = <<".", ".">> THEN None
       ELSE Some(cs[Len(cs)])

LastDot(name) == CHOOSE i \in 1..Len(name) :
                     name[i] = "." /\ \A j \in (i+1)..Len(name) : name[j] # "."

HasSplitDot(name) == (\E i \in 1..Len(name) : name[i] = ".") /\ LastDot(name) > 1

\* Path::file_stem: the file name up to its last dot; the whole name when it
\* has no dot or only a leading one
file_stem(p) ==
    LET n == file_name(p)
    IN IF n = None THEN None
       ELSE IF HasSplitDot(n.v) THEN Some(SubSeq(n.v, 1, LastDot(n.v) - 1))
       ELSE n

\* Path::extension: what follows the last dot of the file name
extension(p) ==
    LET n == file_name(p)
    IN IF n = None THEN None
       ELSE IF HasSplitDot(n.v) THEN Some(SubSeq(n.v, LastDot(n.v) + 1, Len(n.v)))
       ELSE None

\* Path::join: an absolute second path replaces the first
path_join(base, rel) ==
    IF rel # <<>> /\ rel[1] = "/" THEN rel
    ELSE IF base = <<>> \/ base[Len(base)] = "/" THEN base \o rel
    ELSE base \o <<"/">> \o rel

\* ------------------------------------------------------------- ImageFormat
ImageFormats ==
    {"Avif", "Jpeg", "Png", "Gif", "WebP", "Tiff", "Tga", "Dds", "Bmp", "Ico",
     "Hdr", "OpenExr", "Pnm", "Farbfeld", "Qoi", "Pcx"}

\* ImageFormat::from_extension, after lowercasing
ExtensionTable(e) ==
    CASE e = <<"a","v","i","f">> -> Some("Avif")
      [] e \in {<<"j","p","g">>, <<"j","p","e","g">>, <<"j","f","i","f">>} -> Some("Jpeg")
      [] e \in {<<"p","n","g">>, <<"a","p","n","g">>} -> Some("Png")
      [] e = <<"g","i","f">> -> Some("Gif")
      [] e = <<"w","e","b","p">> -> Some("WebP")
      [] e \in {<<"t","i","f">>, <<"t","i","f","f">>} -> Some("Tiff")
      [] e = <<"t","g","a">> -> Some("Tga")
      [] e = <<"d","d","s">> -> Some("Dds")
      [] e = <<"b","m","p">> -> Some("Bmp")
      [] e = <<"i","c","o">> -> Some("Ico")
      [] e = <<"h","d","r">> -> Some("Hdr")
      [] e = <<"e","x","r">> -> Some("OpenExr")
      [] e \in {<<"p","b","m">>, <<"p","a","m">>, <<"p","p","m">>, <<"p","g","m">>} -> Some("Pnm")
      [] e = <<"f","f">> -> Some("Farbfeld")
      [] e = <<"q","o","i">> -> Some("Qoi")
      [] e = <<"p","c","x">> -> Some("Pcx")
      [] OTHER -> None

from_extension(e) == ExtensionTable(to_ascii_lowercase(e))

\* ImageFormat::extensions_str()[0]
extensions_str0(fmt) ==
    CASE fmt = "Avif" -> <<"a","v","i","f">>
      [] fmt = "Jpeg" -> <<"j","p","g">>
      [] fmt = "Png" -> <<"p","n","g">>
      [] fmt = "Gif" -> <<"g","i","f">>
      [] fmt = "WebP" -> <<"w","e","b","p">>
      [] fmt = "Tiff" -> <<"t","i","f","f">>
      [] fmt = "Tga" -> <<"t","g","a">>
      [] fmt = "Dds" -> <<"d","d","s">>
      [] fmt = "Bmp" -> <<"b","m","p">>
      [] fmt = "Ico" -> <<"i","c","o">>
      [] fmt = "Hdr" -> <<"h","d","r">>
      [] fmt = "OpenExr" -> <<"e","x","r">>
      [] fmt = "Pnm" -> <<"p","b","m">>
      [] fmt = "Farbfeld" -> <<"f","f">>
      [] fmt = "Qoi" -> <<"q","o","i">>
      [] fmt = "Pcx" -> <<"p","c","x">>

mk_format(f) ==
    LET r == from_extension(f)
    IN IF r = None THEN Err(InvalidFormat(f)) ELSE Ok(r.v)

\* as mk_format_fp, but a path without extension is taken for a PNG
mk_format_fp_default(f) ==
    LET ext == extension(f)
    IN IF ext = None THEN Ok("Png")
       ELSE LET r == from_extension(ext.v)
            IN IF r = None THEN Err(InvalidFormat(f)) ELSE Ok(r.v)

mk_format_fp(f) ==
    LET ext == extension(f)
    IN IF ext = None THEN Err(InvalidFormat(f))
       ELSE LET r == from_extension(ext.v)
            IN IF r = None THEN Err(InvalidFormat(f)) ELSE Ok(r.v)

\* ImageReader::open guesses the reader's format from the path's extension
reader_format(path) ==
    LET r == mk_format_fp(path)
    IN IF r.tag = "Ok" THEN Some(r.v) ELSE None

\* as mk_filename, but the old extension is kept in the name
mk_filename_whole(p, fmt) ==
    LET t == file_name(p)
    IN IF t # None THEN t.v \o <<".">> \o extensions_str0(fmt)
       ELSE p \o extensions_str0(fmt)

mk_filename(p, fmt) ==
    LET t == file_stem(p)
    IN IF t # None THEN t.v \o <<".">> \o extensions_str0(fmt)
       ELSE p \o extensions_str0(fmt)

join_path(p, fmt, stem) == path_join(stem, mk_filename(p, fmt))

\* --------------------------------------------------------- the environment
\* what File::open may answer
EnvErrorKinds == {"NotFound", "IsADirectory", "Other"}
OpenResults == {Ok("reader")} \cup {Err(k) : k \in EnvErrorKinds}

\* what the codec may answer to decode, save and save_with_format
ImageErrors ==
    {[kind |-> k, io |-> "none"] :
        k \in {"Decoding", "Encoding", "Parameter", "Limits", "Unsupported"}}
    \cup {[kind |-> "IoError", io |-> k] : k \in EnvErrorKinds}
CodecResults == {Ok("done")} \cup {Err(e) : e \in ImageErrors}

Envs == [open : OpenResults, decode : CodecResults, save : CodecResults]

\* ------------------------------------------------------- individual_process
\* one call into the file system or the codec, and whether it succeeded
Ev(op, path, ok) == [op |-> op, path |-> path, ok |-> ok]
Ret(r, ev) == [res |-> r, ev |-> ev]
Outcome(output, org_fmt, fmt) == [output |-> output, org_fmt |-> org_fmt, fmt |-> fmt]

\* as save_with_format, but a derived name is written besides the given path
save_with_format_twice(path, output, org_fmt, fmt, batch, saved, ev) ==
    IF batch /\ output = None THEN Ret(Panic("output.unwrap"), ev)
    ELSE LET out == IF batch THEN join_path(path, fmt, output.v)
                    ELSE IF output # None THEN output.v
                    ELSE mk_filename(path, fmt)
             r == image_err_convert(saved, path)
             ev2 == ev \o <<Ev("save", mk_filename(path, fmt), r.tag = "Ok"),
                            Ev("save", out, r.tag = "Ok")>>
         IN IF r.tag = "Err" THEN Ret(r, ev2)
            ELSE Ret(Ok(Outcome(out, org_fmt, fmt)), ev2)

\* lines 138-141: the output format was given
save_with_format(path, output, org_fmt, fmt, batch, saved, ev) ==
    IF batch /\ output = None THEN Ret(Panic("output.unwrap"), ev)
    ELSE LET out == IF batch THEN join_path(path, fmt, output.v)
                    ELSE IF output # None THEN output.v
                    ELSE mk_filename(path, fmt)
             r == image_err_convert(saved, path)
             ev2 == Append(ev, Ev("save", out, r.tag = "Ok"))
         IN IF r.tag = "Err" THEN Ret(r, ev2)
            ELSE Ret(Ok(Outcome(out, org_fmt, fmt)), ev2)

\* lines 143-147: the output format comes from the output path
save_inferred(path, output, org_fmt, batch, saved, ev) ==
    IF batch THEN Ret(Err(InvalidBatching), ev)
    ELSE IF output = None THEN Ret(Panic("output.unwrap"), ev)
    ELSE LET out == output.v
             aif == mk_format_fp(out)
             r == image_err_convert(saved, path)
             ev2 == Append(ev, Ev("save", out, r.tag = "Ok"))
         IN IF aif.tag = "Err" THEN Ret(aif, ev)
            ELSE IF r.tag = "Err" THEN Ret(r, ev2)
            ELSE Ret(Ok(Outcome(out, org_fmt, aif.v)), ev2)

\* lines 130-148: read, decode, then write
convert(path, output, i_fmt, o_fmt, batch, env) ==
    LET raw_image == imread(path, env.open)
        ev1 == <<Ev("open", path, raw_image.tag = "Ok")>>
    IN IF raw_image.tag = "Err" THEN Ret(raw_image, ev1)
       ELSE LET org_fmt == IF i_fmt # None THEN i_fmt ELSE reader_format(path)
                image == image_err_convert(env.decode, path)
                ev2 == Append(ev1, Ev("decode", path, image.tag = "Ok"))
            IN IF image.tag = "Err" THEN Ret(image, ev2)
               ELSE IF o_fmt # None
                    THEN save_with_format(path, output, org_fmt, o_fmt.v, batch, env.save, ev2)
                    ELSE save_inferred(path, output, org_fmt, batch, env.save, ev2)

\* as individual_process, without the check of line 128
individual_process_unchecked(path, output, i_fmt, o_fmt, batch, env) ==
    convert(path, output, i_fmt, o_fmt, batch, env)

individual_process(path, output, i_fmt, o_fmt, batch, env) ==
    IF output = None /\ o_fmt = None THEN Ret(Err(NoDestFormat), <<>>)
    ELSE convert(path, output, i_fmt, o_fmt, batch, env)

\* ------------------------------------------------- expand_patterns_to_files
OkEntry(path) == [tag |-> "Ok", v |-> path, utf8 |-> TRUE]
NonUtf8Entry == [tag |-> "Ok", v |-> <<>>, utf8 |-> FALSE]
ErrEntry == [tag |-> "Err", v |-> <<>>, utf8 |-> TRUE]

\* as push_entries, but an unreadable entry is skipped
RECURSIVE push_entries_skip(_, _)
push_entries_skip(files, entries) ==
    IF entries = <<>> THEN Ok(files)
    ELSE LET entry == Head(entries)
         IN IF entry.tag = "Err" THEN push_entries_skip(files, Tail(entries))
            ELSE IF ~entry.utf8 THEN Panic("to_str.unwrap")
            ELSE push_entries_skip(Append(files, entry.v), Tail(entries))

\* lines 172-177: the matches of one pattern
RECURSIVE push_entries(_, _)
push_entries(files, entries) ==
    IF entries = <<>> THEN Ok(files)
    ELSE LET entry == Head(entries)
         IN IF entry.tag = "Err" THEN Err(BatchReadEntry("GlobError"))
            ELSE IF ~entry.utf8 THEN Panic("to_str.unwrap")
            ELSE push_entries(Append(files, entry.v), Tail(entries))

\* lines 169-181: glob is Ok(entries) or Err(PatternError) for each pattern
RECURSIVE expand_from(_, _, _)
expand_from(files, patterns, glob) ==
    IF patterns = <<>> THEN Ok(files)
    ELSE LET pattern == Head(patterns)
             paths == glob[pattern]
         IN IF paths.tag = "Err" THEN Err(BatchPattern("PatternError", pattern))
            ELSE LET r == push_entries(files, paths.v)
                 IN IF r.tag = "Ok" THEN expand_from(r.v, Tail(patterns), glob) ELSE r

expand_patterns_to_files(patterns, glob) == expand_from(<<>>, patterns, glob)

\* ------------------------------------------------------- parse_and_execute
\* as partner, but the fallback is the first output
partner_first(i, output_files) ==
    IF output_files = <<>> THEN None
    ELSE IF i > Len(output_files) THEN Some(output_files[1])
    ELSE Some(output_files[i])

\* lines 202-208, with i counted from 1
partner(i, output_files) ==
    IF output_files = <<>> THEN None
    ELSE IF i > Len(output_files) THEN Some(output_files[Len(output_files)])
    ELSE Some(output_files[i])

pair(inputs, output_files) ==
    [i \in 1..Len(inputs) |-> [input |-> inputs[i], partner |-> partner(i, output_files)]]

\* ---------------------------------------------------- the command lines tried
photo_jpg == <<"p","h","o","t","o",".","j","p","g">>
dir_photo_jpg == <<"d","i","r","/">> \o photo_jpg
a_tar_gz == <<"a",".","t","a","r",".","g","z">>
dot_hidden == <<".","h","i","d","d","e","n">>
noext == <<"n","o","e","x","t">>
dotdot == <<".",".">>
root == <<"/">>
dir_slash == <<"d","i","r","/">>

out == <<"o","u","t">>
out_slash == <<"o","u","t","/">>
o_png == <<"o",".","p","n","g">>
o_zzz == <<"o",".","z","z","z">>
X_PNG == <<"X",".","P","N","G">>
dot_png == <<".","p","n","g">>
o_dot == <<"o",".">>

star == <<"*">>
dir_star == <<"d","i","r","/","*">>
bracket == <<"[">>

jpg == <<"j","p","g">>
webp == <<"w","e","b","p">>
PNG == <<"P","N","G">>
tif == <<"t","i","f">>
zzz == <<"z","z","z">>

\* glob::Pattern::new rejects an unclosed character class
MalformedPatterns == {bracket}

\* what the directory listing may hold for a well-formed pattern
Matches(pattern) ==
    IF pattern = dir_star
    THEN {<<OkEntry(dir_slash \o q)>> : q \in {photo_jpg, a_tar_gz, dot_hidden, noext}}
    ELSE {<<>>, <<OkEntry(dir_photo_jpg)>>, <<OkEntry(photo_jpg), OkEntry(dir_photo_jpg)>>,
          <<OkEntry(photo_jpg), ErrEntry>>, <<NonUtf8Entry>>}

\* the answers of glob() to the patterns of one command line
Globs(patterns) ==
    LET ps == {patterns[i] : i \in 1..Len(patterns)}
    IN {g \in [ps -> {Err("PatternError")} \cup {Ok(m) : m \in UNION {Matches(q) : q \in ps}}] :
           \A q \in ps : IF q \in MalformedPatterns THEN g[q].tag = "Err"
                         ELSE g[q].tag = "Ok" /\ g[q].v \in Matches(q)}

SeqsUpTo(S, n) == UNION {[1..k -> S] : k \in 0..n}

Args(input, output, i_fmt, o_fmt, batch) ==
    [input |-> input, output |-> output, i_fmt |-> i_fmt, o_fmt |-> o_fmt, batch |-> batch]

\* whole batches, over few paths
BatchArgs ==
    {Args(i, o, f, d, b) :
        i \in SeqsUpTo({photo_jpg, dir_photo_jpg}, MaxInputs) \ {<<>>},
        o \in SeqsUpTo({out, o_png}, MaxOutputs),
        f \in {None, Some(jpg), Some(zzz)},
        d \in {None, Some(webp), Some(zzz)},
        b \in {FALSE}}
    \cup
    {Args(i, o, f, d, b) :
        i \in SeqsUpTo({star, bracket}, MaxInputs) \ {<<>>},
        o \in SeqsUpTo({out, o_png}, MaxOutputs),
        f \in {None, Some(jpg), Some(zzz)},
        d \in {None, Some(webp), Some(zzz)},
        b \in {TRUE}}

\* one input and at most one output, over many shapes of path
UnitArgs ==
    {Args(<<i>>, o, f, d, b) :
        i \in {photo_jpg, dir_photo_jpg, a_tar_gz, dot_hidden, noext, dotdot, root, dir_slash},
        o \in {<<>>} \cup {<<q>> : q \in {out, out_slash, o_png, o_zzz, X_PNG, dot_png, o_dot}},
        f \in {None, Some(jpg), Some(zzz)},
        d \in {None, Some(PNG), Some(webp), Some(tif), Some(zzz)},
        b \in {FALSE}}
    \cup
    {Args(<<i>>, o, f, d, b) :
        i \in {dir_star, bracket},
        o \in {<<>>} \cup {<<q>> : q \in {out, out_slash, o_png, o_zzz, X_PNG, dot_png, o_dot}},
        f \in {None, Some(jpg), Some(zzz)},
        d \in {None, Some(PNG), Some(webp), Some(tif), Some(zzz)},
        b \in {TRUE}}

\* ------------------------------------------------------------ the program
Start(a) ==
    /\ args = a
    /\ pc = "start"
    /\ input_files = <<>>
    /\ couples = <<>>
    /\ fmts = [i_fmt |-> None, o_fmt |-> None]
    /\ idx = 1
    /\ calls = <<>>
    /\ events = <<>>
    /\ stdout = <<>>
    /\ globbed = None
    /\ res = None

Init == \E a \in BatchArgs : Start(a)

InitUnit == \E a \in UnitArgs : Start(a)

\* parse_and_execute, lines 186-194
ExpandInputs ==
    /\ pc = "start"
    /\ IF args.batch
       THEN \E glob \in Globs(args.input) :
               LET r == expand_patterns_to_files(args.input, glob)
               IN /\ globbed' = Some(glob)
                  /\ CASE r.tag = "Ok" ->
                            /\ input_files' = r.v
                            /\ pc' = "expanded"
                            /\ res' = res
                       [] r.tag = "Err" ->
                            /\ input_files' = input_files
                            /\ pc' = "returned"
                            /\ res' = r
                       [] r.tag = "Panic" ->
                            /\ input_files' = input_files
                            /\ pc' = "panicked"
                            /\ res' = r
       ELSE /\ input_files' = args.input
            /\ pc' = "expanded"
            /\ UNCHANGED <<globbed, res>>
    /\ UNCHANGED <<args, couples, fmts, idx, calls, events, stdout>>

\* parse_and_execute, lines 196-211
PairOutputs ==
    /\ pc = "expanded"
    /\ couples' = pair(input_files, args.output)
    /\ pc' = "paired"
    /\ UNCHANGED <<args, input_files, fmts, idx, calls, events, stdout, globbed, res>>

\* process, lines 152-153
ResolveFormats ==
    /\ pc = "paired"
    /\ LET i == IF args.i_fmt # None THEN mk_format(args.i_fmt.v) ELSE Ok("absent")
           o == IF args.o_fmt # None THEN mk_format(args.o_fmt.v) ELSE Ok("absent")
       IN IF i.tag = "Err" THEN /\ res' = i /\ pc' = "returned" /\ fmts' = fmts
          ELSE IF o.tag = "Err" THEN /\ res' = o /\ pc' = "returned" /\ fmts' = fmts
          ELSE /\ fmts' = [i_fmt |-> IF args.i_fmt # None THEN Some(i.v) ELSE None,
                           o_fmt |-> IF args.o_fmt # None THEN Some(o.v) ELSE None]
               /\ pc' = "loop"
               /\ res' = res
    /\ UNCHANGED <<args, input_files, couples, idx, calls, events, stdout, globbed>>

\* the line printed for a converted file, lines 157-161
SuccessLine(input, r) ==
    [kind |-> "success", input |-> input,
     in_fmt |-> IF r.org_fmt # None THEN Some(extensions_str0(r.org_fmt.v)) ELSE None,
     output |-> r.output, out_fmt |-> extensions_str0(r.fmt)]

ErrorLine(e) == [kind |-> "error", e |-> e]

Tagged(ev, unit) ==
    [i \in 1..Len(ev) |-> [unit |-> unit, op |-> ev[i].op, path |-> ev[i].path, ok |-> ev[i].ok]]

\* as ProcessCouple, but the loop goes on after a failed couple
ProcessCouple_continue ==
    /\ pc = "loop"
    /\ idx <= Len(couples)
    /\ \E env \in Envs :
          LET couple == couples[idx]
              r == individual_process(couple.input, couple.partner,
                                      fmts.i_fmt, fmts.o_fmt, args.batch, env)
          IN /\ calls' = Append(calls, [unit |-> idx, res |-> r.res])
             /\ events' = events \o Tagged(r.ev, idx)
             /\ CASE r.res.tag = "Ok" ->
                       /\ stdout' = Append(stdout, SuccessLine(couple.input, r.res.v))
                       /\ idx' = idx + 1
                       /\ UNCHANGED <<pc, res>>
                  [] r.res.tag = "Err" ->
                       /\ res' = r.res
                       /\ idx' = idx + 1
                       /\ UNCHANGED <<stdout, pc>>
                  [] r.res.tag = "Panic" ->
                       /\ res' = r.res
                       /\ pc' = "panicked"
                       /\ UNCHANGED <<stdout, idx>>
    /\ UNCHANGED <<args, input_files, couples, fmts, globbed>>

\* process, one turn of the loop of lines 155-162
ProcessCouple ==
    /\ pc = "loop"
    /\ idx <= Len(couples)
    /\ \E env \in Envs :
          LET couple == couples[idx]
              r == individual_process(couple.input, couple.partner,
                                      fmts.i_fmt, fmts.o_fmt, args.batch, env)
          IN /\ calls' = Append(calls, [unit |-> idx, res |-> r.res])
             /\ events' = events \o Tagged(r.ev, idx)
             /\ CASE r.res.tag = "Ok" ->
                       /\ stdout' = Append(stdout, SuccessLine(couple.input, r.res.v))
                       /\ idx' = idx + 1
                       /\ UNCHANGED <<pc, res>>
                  [] r.res.tag = "Err" ->
                       /\ res' = r.res
                       /\ pc' = "returned"
                       /\ UNCHANGED <<stdout, idx>>
                  [] r.res.tag = "Panic" ->
                       /\ res' = r.res
                       /\ pc' = "panicked"
                       /\ UNCHANGED <<stdout, idx>>
    /\ UNCHANGED <<args, input_files, couples, fmts, globbed>>

\* process, line 164
FinishLoop ==
    /\ pc = "loop"
    /\ idx > Len(couples)
    /\ res' = Ok("unit")
    /\ pc' = "returned"
    /\ UNCHANGED <<args, input_files, couples, fmts, idx, calls, events, stdout, globbed>>

\* main, lines 268-271
Report ==
    /\ pc = "returned"
    /\ stdout' = IF res.tag = "Err" THEN Append(stdout, ErrorLine(res.e)) ELSE stdout
    /\ pc' = "exit"
    /\ UNCHANGED <<args, input_files, couples, fmts, idx, calls, events, globbed, res>>

Next ==
    \/ ExpandInputs
    \/ PairOutputs
    \/ ResolveFormats
    \/ ProcessCouple
    \/ FinishLoop
    \/ Report

Spec == Init /\ [][Next]_vars

SpecUnit == InitUnit /\ [][Next]_vars

\* ------------------------------------------------------------------ claims
UnitEvents(k) == SelectSeq(events, LAMBDA e : e.unit = k)
UnitOps(k, op) == SelectSeq(events, LAMBDA e : e.unit = k /\ e.op = op)
SuccessLines == SelectSeq(stdout, LAMBDA l : l.kind = "success")
Paired == pc \in {"paired", "loop"} \/ calls # <<>>

\* C1: the pairing step yields one couple per input, in input order; the
\* partner of input i is None when there are no outputs, the i-th output
\* when there is one, and the last output otherwise.
C1_PairingRule ==
    pc = "paired" =>
        /\ Len(couples) = Len(input_files)
        /\ \A i \in 1..Len(input_files) :
              /\ couples[i].input = input_files[i]
              /\ args.output = <<>> => couples[i].partner = None
              /\ (args.output # <<>> /\ i <= Len(args.output)) =>
                     couples[i].partner = Some(args.output[i])
              /\ (args.output # <<>> /\ i > Len(args.output)) =>
                     couples[i].partner = Some(args.output[Len(args.output)])

\* three inputs and two outputs: the third input gets the second output
C1_Witness ==
    /\ pc = "paired"
    /\ Len(input_files) = 3
    /\ Len(args.output) = 2
    /\ args.output[1] # args.output[2]
    /\ couples[2].partner = Some(args.output[2])
    /\ couples[3].partner = Some(args.output[2])

\* C2: couples are processed strictly in input order; when couple k is the
\* first to fail, the success lines printed are exactly those of couples
\* 1..k-1, in order, nothing is printed before the error but them, and no
\* later couple is attempted.
C2_FailFastOrdering ==
    /\ \A q \in 1..Len(calls) : calls[q].unit = q
    /\ \A i, j \in 1..Len(events) : i < j => events[i].unit <= events[j].unit
    /\ \A q \in 1..Len(calls) :
          calls[q].res.tag # "Ok" =>
             /\ Len(calls) = q
             /\ \A i \in 1..Len(events) : events[i].unit <= q
             /\ Len(SuccessLines) = q - 1
             /\ \A j \in 1..(q - 1) : SuccessLines[j].input = input_files[j]
             /\ IF calls[q].res.tag = "Err" /\ pc = "exit"
                THEN stdout = SuccessLines \o <<ErrorLine(calls[q].res.e)>>
                ELSE stdout = SuccessLines

\* the second of three files cannot be opened: one success line, the error,
\* and the third file untouched
C2_Witness ==
    /\ pc = "exit"
    /\ Len(couples) = 3
    /\ Len(calls) = 2
    /\ calls[2].res = Err(FailedFileRead("Not found", input_files[2]))
    /\ Len(stdout) = 2
    /\ stdout[1].kind = "success"
    /\ stdout[1].input = input_files[1]
    /\ stdout[2] = ErrorLine(calls[2].res.e)
    /\ UnitEvents(3) = <<>>

\* C3: a couple with batch mode, no output format and a paired output fails
\* with InvalidBatching whatever the file and the codec do, and nothing is
\* opened, decoded or written for it.
C3_BatchWithoutFormat ==
    \A q \in 1..Len(calls) :
        (args.batch /\ fmts.o_fmt = None /\ couples[calls[q].unit].partner # None) =>
            /\ calls[q].res = Err(InvalidBatching)
            /\ UnitEvents(calls[q].unit) = <<>>

\* C4: a couple with no paired output and no output format fails with
\* NoDestFormat, and no file is opened or written for it.
C4_NoDestination ==
    \A q \in 1..Len(calls) :
        (fmts.o_fmt = None /\ couples[calls[q].unit].partner = None) =>
            /\ calls[q].res = Err(NoDestFormat)
            /\ UnitEvents(calls[q].unit) = <<>>

C4_Witness ==
    /\ pc = "exit"
    /\ args.batch
    /\ args.output = <<>>
    /\ args.o_fmt = None
    /\ Len(calls) = 1
    /\ calls[1].res = Err(NoDestFormat)
    /\ events = <<>>
    /\ stdout = <<ErrorLine(NoDestFormat)>>

\* C5: FailedFileWrite is reported only for a couple whose save was reached;
\* an I/O failure before that is a FailedFileRead.
C5_IoFailureStage ==
    \A q \in 1..Len(calls) :
        (calls[q].res.tag = "Err" /\ calls[q].res.e.kind = "FailedFileWrite") =>
            UnitOps(calls[q].unit, "save") # <<>>

\* C9: no couple has more than one open or more than one save; a converted
\* couple has exactly one of each, the open before the save.
C9_SideEffects ==
    \A q \in 1..Len(calls) :
        LET k == calls[q].unit
        IN /\ Len(UnitOps(k, "open")) <= 1
           /\ Len(UnitOps(k, "save")) <= 1
           /\ calls[q].res.tag = "Ok" =>
                 /\ Len(UnitOps(k, "open")) = 1
                 /\ Len(UnitOps(k, "save")) = 1
                 /\ \A i, j \in 1..Len(events) :
                       (events[i].unit = k /\ events[j].unit = k
                        /\ events[i].op = "open" /\ events[j].op = "save") => i < j

C9_Witness ==
    /\ pc = "exit"
    /\ Len(calls) = 2
    /\ calls[1].res.tag = "Ok"
    /\ calls[2].res.tag = "Ok"
    /\ [i \in 1..Len(events) |-> events[i].op] =
          <<"open", "decode", "save", "open", "decode", "save">>

photo == <<"p","h","o","t","o">>

ClaimedStem(p) ==
    CASE p \in {photo_jpg, dir_photo_jpg} -> Some(photo)
      [] p \in {a_tar_gz, dir_slash \o a_tar_gz} -> Some(<<"a",".","t","a","r">>)
      [] p \in {dot_hidden, dir_slash \o dot_hidden} -> Some(dot_hidden)
      [] p \in {noext, dir_slash \o noext} -> Some(noext)
      [] p = dir_slash -> Some(<<"d","i","r">>)
      [] OTHER -> None

ClaimedFormat(token) ==
    CASE token = PNG -> "Png"
      [] token = webp -> "WebP"
      [] token = tif -> "Tiff"
      [] token = jpg -> "Jpeg"

ClaimedExtension(fmt) ==
    CASE fmt = "Png" -> <<"p","n","g">>
      [] fmt = "WebP" -> webp
      [] fmt = "Tiff" -> <<"t","i","f","f">>
      [] fmt = "Jpeg" -> jpg

ClaimedFormatOfPath(p) ==
    CASE p \in {o_png, X_PNG} -> Some("Png")
      [] OTHER -> None

ClaimedJoin(dir, name) ==
    IF dir[Len(dir)] = "/" THEN dir \o name ELSE dir \o <<"/">> \o name

\* C6: with an output format F and an input that has a file stem, the path
\* written is stem.ext(F) without any directory of the input (no batch, no
\* paired output) or D/stem.ext(F) (batch, paired output D), and the
\* reported format is F.
C6_DerivedName ==
    \A q \in 1..Len(calls) :
        LET k == calls[q].unit
            p == couples[k].input
            D == couples[k].partner
            r == calls[q].res
        IN (args.o_fmt # None /\ fmts.o_fmt # None /\ ClaimedStem(p) # None
            /\ (IF args.batch THEN D # None ELSE D = None)) =>
              LET F == ClaimedFormat(args.o_fmt.v)
                  name == ClaimedStem(p).v \o <<".">> \o ClaimedExtension(F)
                  want == IF args.batch THEN ClaimedJoin(D.v, name) ELSE name
              IN /\ \A i \in 1..Len(name) : name[i] # "/"
                 /\ \A i \in 1..Len(events) :
                       (events[i].unit = k /\ events[i].op = "save") => events[i].path = want
                 /\ (\E i \in 1..Len(events) :
                        events[i].unit = k /\ events[i].op = "decode" /\ events[i].ok)
                       => UnitOps(k, "save") # <<>>
                 /\ r.tag = "Ok" =>
                       /\ r.v.output = want
                       /\ r.v.fmt = F
                       /\ SuccessLines[k].output = want
                       /\ SuccessLines[k].out_fmt = ClaimedExtension(F)

\* dir/photo.jpg, batch, out, webp: out/photo.webp is written and reported
C6_Witness ==
    /\ pc = "exit"
    /\ args.batch
    /\ args.output = <<out>>
    /\ args.o_fmt = Some(webp)
    /\ Len(calls) = 1
    /\ couples[1].input = dir_photo_jpg
    /\ calls[1].res.tag = "Ok"
    /\ UnitOps(1, "save")[1].path = <<"o","u","t","/","p","h","o","t","o",".","w","e","b","p">>
    /\ stdout[1].output = <<"o","u","t","/","p","h","o","t","o",".","w","e","b","p">>
    /\ stdout[1].out_fmt = webp

\* photo.jpg, PNG, no output: photo.png is written
C6_WitnessPlain ==
    /\ pc = "exit"
    /\ ~args.batch
    /\ args.output = <<>>
    /\ args.o_fmt = Some(PNG)
    /\ Len(calls) = 1
    /\ couples[1].input \in {photo_jpg, dir_photo_jpg}
    /\ calls[1].res.tag = "Ok"
    /\ stdout[1].output = <<"p","h","o","t","o",".","p","n","g">>

\* C7, as claimed: without batch mode a paired output path is written and
\* reported unchanged; without an output format the format is the one of the
\* path's extension, and a path whose extension is missing or unknown makes
\* the couple fail with InvalidFormat, nothing being written.
C7_ExplicitPath_AsClaimed ==
    \A q \in 1..Len(calls) :
        LET k == calls[q].unit
            P == couples[k].partner
            r == calls[q].res
        IN (~args.batch /\ P # None) =>
              /\ \A i \in 1..Len(events) :
                    (events[i].unit = k /\ events[i].op = "save") => events[i].path = P.v
              /\ r.tag = "Ok" => (r.v.output = P.v /\ SuccessLines[k].output = P.v)
              /\ fmts.o_fmt = None =>
                    IF ClaimedFormatOfPath(P.v) # None
                    THEN r.tag = "Ok" =>
                            /\ r.v.fmt = ClaimedFormatOfPath(P.v).v
                            /\ SuccessLines[k].out_fmt = ClaimedExtension(r.v.fmt)
                    ELSE /\ r = Err(InvalidFormat(P.v))
                         /\ UnitOps(k, "save") = <<>>

\* C7, amended: as claimed, but with a missing or unknown extension the
\* couple fails and nothing is written, the error being InvalidFormat once
\* the input was opened and decoded.
C7_ExplicitPath ==
    \A q \in 1..Len(calls) :
        LET k == calls[q].unit
            P == couples[k].partner
            r == calls[q].res
        IN (~args.batch /\ P # None) =>
              /\ \A i \in 1..Len(events) :
                    (events[i].unit = k /\ events[i].op = "save") => events[i].path = P.v
              /\ r.tag = "Ok" => (r.v.output = P.v /\ SuccessLines[k].output = P.v)
              /\ fmts.o_fmt = None =>
                    IF ClaimedFormatOfPath(P.v) # None
                    THEN r.tag = "Ok" =>
                            /\ r.v.fmt = ClaimedFormatOfPath(P.v).v
                            /\ SuccessLines[k].out_fmt = ClaimedExtension(r.v.fmt)
                    ELSE /\ r.tag = "Err"
                         /\ UnitOps(k, "save") = <<>>
                         /\ (\E i \in 1..Len(events) :
                                events[i].unit = k /\ events[i].op = "decode" /\ events[i].ok)
                               => r = Err(InvalidFormat(P.v))

\* the input decodes, the output path has no extension: InvalidFormat
C7_Witness ==
    /\ pc = "exit"
    /\ ~args.batch
    /\ args.output = <<out>>
    /\ args.o_fmt = None
    /\ Len(calls) = 1
    /\ calls[1].res = Err(InvalidFormat(out))
    /\ [i \in 1..Len(events) |-> events[i].op] = <<"open", "decode">>
    /\ events[2].ok

\* what the patterns stand for on disk, in pattern order
RECURSIVE Listing(_, _)
Listing(patterns, glob) ==
    IF patterns = <<>> THEN <<>>
    ELSE LET pat == Head(patterns)
             g == glob[pat]
         IN (IF g.tag = "Err" THEN <<[what |-> "malformed", pattern |-> pat, v |-> <<>>]>>
             ELSE [i \in 1..Len(g.v) |->
                     [what |-> IF g.v[i].tag = "Err" THEN "unreadable"
                               ELSE IF g.v[i].utf8 THEN "path" ELSE "not utf-8",
                      pattern |-> pat, v |-> g.v[i].v]])
            \o Listing(Tail(patterns), glob)

C8_WitnessExpanded ==
    /\ pc = "paired"
    /\ args.batch
    /\ Len(args.input) = 2
    /\ Len(input_files) = 4

====
